---- MODULE Spec2Model ----
(***************************************************************************)
(* Sequential IP allocator (plugins/ipam/allocator/sequential) together    *)
(* with the add/delete commands that drive it.  Several short-lived        *)
(* processes run cmdAdd / cmdDel against the store of one subnet.          *)
(*                                                                         *)
(* Addresses are AddrBits-wide unsigned integers.  The store               *)
(* (backend.Store) and ip.NextIP are not part of the sources at hand; they *)
(* are modelled from their documented contract.                            *)
(***************************************************************************)
EXTENDS Integers, FiniteSets, Sequences, TLC

\* ---- bounds ----
AddrBits == 3
HostBits == 2
NumProcs == 2
NumOwners == 2
MaxCalls == 3

AddrSpace == 2 ^ AddrBits
Addr == 0 .. (AddrSpace - 1)
\* a nil net.IP
Nil == AddrSpace
\* the walk of one search is counted this far: one more than there are addresses
MaxPasses == AddrSpace + 1
Procs == 1 .. NumProcs
Owners == 1 .. NumOwners

VARIABLES
    conf,      \* the IPAMConfig every invocation loads: Subnet, RangeStart, RangeEnd, Gateway
    table,     \* store: reservation records, a set of <<address, ownerID>>
    marker,    \* store: last reserved ip, Nil when never written
    holders,   \* store: processes that hold the exclusive lock
    open,      \* processes whose store handle (disk.New) is open
    pc,        \* per process: position in cmdAdd / cmdDel
    op,        \* per process: the invocation (command, ContainerID, Args.IP)
    cur,       \* per process: loop variable of Get's search
    endIP,     \* per process: endIP of Get's search
    result,    \* per process: what Get / Release returns
    tbl0,      \* per process: records when the process took the lock
    mk0,       \* per process: last reserved ip when the process took the lock
    seeded,    \* per process: getSearchRange started from the last reserved ip
    passes,    \* per process: candidates the search loop has visited, counted up to MaxPasses
    lastRel,   \* ContainerID of the call that returned most recently when it was a Release, else 0
    calls      \* number of invocations started so far

vars == <<conf, table, marker, holders, open, pc, op, cur, endIP, result, tbl0, mk0, seeded, passes, lastRel, calls>>

\* ---- pkg/ip and net helpers ----

\* ip.NextIP: the address one greater, as a fixed-width big-endian integer
NextIP(a) == (a + 1) % AddrSpace

SubnetSize(subnet) == 2 ^ subnet.host

\* net.IPNet.Contains: the masked address equals the masked network address
Contains(subnet, a) ==
    /\ a # Nil
    /\ subnet.ip # Nil
    /\ a \div SubnetSize(subnet) = subnet.ip \div SubnetSize(subnet)

validateRangeIP(a, subnet) == Contains(subnet, a)

\* networkRange: (ipnet.IP, ip | ^mask), or an error for a missing subnet or
\* for an address and a mask of different widths (len(ip) != len(ipnet.Mask))
networkRange(subnet) ==
    IF subnet.ip = Nil \/ subnet.ipLen # subnet.maskLen
    THEN [err |-> "InvalidSubnet", start |-> Nil, end |-> Nil]
    ELSE [err |-> "none",
          start |-> subnet.ip,
          end |-> (subnet.ip \div SubnetSize(subnet)) * SubnetSize(subnet)
                      + (SubnetSize(subnet) - 1)]

\* a NewIPAllocator that takes RangeEnd itself as end, not the address after it
NewIPAllocator_EndIsRangeEnd(c) ==
    LET r == networkRange(c.subnet) IN
    IF r.err # "none" THEN [err |-> r.err, start |-> Nil, end |-> Nil]
    ELSE IF c.rangeStart # Nil /\ ~validateRangeIP(c.rangeStart, c.subnet)
    THEN [err |-> "InvalidRange", start |-> Nil, end |-> Nil]
    ELSE IF c.rangeEnd # Nil /\ ~validateRangeIP(c.rangeEnd, c.subnet)
    THEN [err |-> "InvalidRange", start |-> Nil, end |-> Nil]
    ELSE [err |-> "none",
          start |-> IF c.rangeStart # Nil THEN c.rangeStart ELSE NextIP(r.start),
          end |-> IF c.rangeEnd # Nil THEN c.rangeEnd ELSE r.end]

\* NewIPAllocator: the allocator's start and end, or an error
NewIPAllocator(c) ==
    LET r == networkRange(c.subnet) IN
    IF r.err # "none" THEN [err |-> r.err, start |-> Nil, end |-> Nil]
    ELSE IF c.rangeStart # Nil /\ ~validateRangeIP(c.rangeStart, c.subnet)
    THEN [err |-> "InvalidRange", start |-> Nil, end |-> Nil]
    ELSE IF c.rangeEnd # Nil /\ ~validateRangeIP(c.rangeEnd, c.subnet)
    THEN [err |-> "InvalidRange", start |-> Nil, end |-> Nil]
    ELSE [err |-> "none",
          start |-> IF c.rangeStart # Nil THEN c.rangeStart ELSE NextIP(r.start),
          end |-> IF c.rangeEnd # Nil THEN NextIP(c.rangeEnd) ELSE r.end]

\* the allocator the running invocations construct from conf
alloc == NewIPAllocator(conf)

\* Get: gw := conf.Gateway, defaulting to NextIP(Subnet.IP)
GatewayOf(c) == IF c.gateway # Nil THEN c.gateway ELSE NextIP(c.subnet.ip)

\* IPAllocator.nextIP
nextIP(a, curIP) == IF curIP = a.end THEN a.start ELSE NextIP(curIP)

\* ---- the store (backend.Store) ----

Held(t) == {r[1] : r \in t}
OwnersOf(t, a) == {r[2] : r \in {x \in t : x[1] = a}}

\* Store.Reserve: insert (ip, id) iff ip has no owner, and move the marker
Reserve(t, m, id, a) ==
    IF a \in Held(t)
    THEN [reserved |-> FALSE, table |-> t, marker |-> m]
    ELSE [reserved |-> TRUE, table |-> t \cup {<<a, id>>}, marker |-> a]

\* Store.ReleaseByID: remove every record of id
ReleaseByID(t, id) == {r \in t : r[2] # id}

\* IPAllocator.getSearchRange; m is what Store.LastReservedIP returned
\* a seeded range that ends at a.end: the search does not wrap around
getSearchRange_NoWrap(c, a, m) ==
    IF m # Nil /\ validateRangeIP(m, c.subnet)
    THEN [startIP |-> nextIP(a, m), endIP |-> a.end, seeded |-> TRUE]
    ELSE [startIP |-> a.start, endIP |-> a.end, seeded |-> FALSE]

\* an unseeded range that starts one address late
getSearchRange_SkipsStart(c, a, m) ==
    IF m # Nil /\ validateRangeIP(m, c.subnet)
    THEN [startIP |-> nextIP(a, m), endIP |-> m, seeded |-> TRUE]
    ELSE [startIP |-> nextIP(a, a.start), endIP |-> a.end, seeded |-> FALSE]

getSearchRange(c, a, m) ==
    IF m # Nil /\ validateRangeIP(m, c.subnet)
    THEN [startIP |-> nextIP(a, m), endIP |-> m, seeded |-> TRUE]
    ELSE [startIP |-> a.start, endIP |-> a.end, seeded |-> FALSE]

\* ---- results ----
Ok(a) == [kind |-> "ok", ip |-> a]
Err(k) == [kind |-> k, ip |-> Nil]
NoResult == [kind |-> "none", ip |-> Nil]
NoOp == [cmd |-> "none", id |-> 0, req |-> Nil]

\* ---- configurations ----
\* ipLen, maskLen: the widths of Subnet.IP and Subnet.Mask, "v4" or "v6"
Subnets ==
    {[ip |-> b, host |-> HostBits, ipLen |-> "v4", maskLen |-> "v4"] :
        b \in {x \in Addr : x % (2 ^ HostBits) = 0}}
OptAddr == Addr \cup {Nil}
\* gateways: none, an address of the subnet, or the address after the subnet
Gateways(subnet) ==
    {Nil, NextIP(networkRange(subnet).end)} \cup {a \in Addr : Contains(subnet, a)}
Confs ==
    {c \in [subnet : Subnets, rangeStart : OptAddr, rangeEnd : OptAddr, gateway : OptAddr] :
        /\ NewIPAllocator(c).err = "none"
        /\ c.gateway \in Gateways(c.subnet)
        /\ (c.rangeStart # Nil /\ c.rangeEnd # Nil) => c.rangeStart <= c.rangeEnd}

Init ==
    /\ conf \in Confs
    /\ table = {}
    /\ marker = Nil
    /\ holders = {}
    /\ open = {}
    /\ pc = [p \in Procs |-> "idle"]
    /\ op = [p \in Procs |-> NoOp]
    /\ cur = [p \in Procs |-> Nil]
    /\ endIP = [p \in Procs |-> Nil]
    /\ result = [p \in Procs |-> NoResult]
    /\ tbl0 = [p \in Procs |-> {}]
    /\ mk0 = [p \in Procs |-> Nil]
    /\ seeded = [p \in Procs |-> FALSE]
    /\ passes = [p \in Procs |-> 0]
    /\ lastRel = 0
    /\ calls = 0

\* a Lock that does not wait for the holder to unlock
Lock_NoWait(p) ==
    /\ holders' = holders \cup {p}
    /\ tbl0' = [tbl0 EXCEPT ![p] = table]
    /\ mk0' = [mk0 EXCEPT ![p] = marker]

\* a.store.Lock() at the head of Get and Release: blocks while the lock is held
Lock(p) ==
    /\ holders = {}
    /\ holders' = holders \cup {p}
    /\ tbl0' = [tbl0 EXCEPT ![p] = table]
    /\ mk0' = [mk0 EXCEPT ![p] = marker]

\* a command that defers store.Close() only once the allocator is built: a
\* failed NewIPAllocator returns with the store left open
ConstructFailed_NoClose(p, err) ==
    /\ pc' = [pc EXCEPT ![p] = "idle"]
    /\ result' = result
    /\ open' = open \cup {p}
    /\ UNCHANGED <<holders, tbl0, mk0>>

\* cmdAdd / cmdDel: NewIPAllocator failed; the command returns the error and
\* the deferred store.Close() is left to run
ConstructFailed(p, err) ==
    /\ pc' = [pc EXCEPT ![p] = "close"]
    /\ result' = [result EXCEPT ![p] = Err(err)]
    /\ open' = open \cup {p}
    /\ UNCHANGED <<holders, tbl0, mk0>>

\* cmdAdd up to the Lock of allocator.Get: the invocation's ContainerID and
\* Args.IP; disk.New opens the store, NewIPAllocator builds the allocator,
\* and the process waits for the lock
cmdAdd(p) ==
    /\ pc[p] = "idle"
    /\ calls < MaxCalls
    /\ \E id \in Owners, req \in OptAddr :
           op' = [op EXCEPT ![p] = [cmd |-> "add", id |-> id, req |-> req]]
    /\ IF alloc.err = "none"
       THEN /\ open' = open \cup {p}
            /\ Lock(p)
            /\ pc' = [pc EXCEPT ![p] = "get"]
            /\ UNCHANGED result
       ELSE ConstructFailed(p, alloc.err)
    /\ calls' = calls + 1
    /\ UNCHANGED <<conf, table, marker, cur, endIP, seeded, passes, lastRel>>

\* cmdDel up to the Lock of allocator.Release
cmdDel(p) ==
    /\ pc[p] = "idle"
    /\ calls < MaxCalls
    /\ \E id \in Owners :
           op' = [op EXCEPT ![p] = [cmd |-> "del", id |-> id, req |-> Nil]]
    /\ IF alloc.err = "none"
       THEN /\ open' = open \cup {p}
            /\ Lock(p)
            /\ pc' = [pc EXCEPT ![p] = "release"]
            /\ UNCHANGED result
       ELSE ConstructFailed(p, alloc.err)
    /\ calls' = calls + 1
    /\ UNCHANGED <<conf, table, marker, cur, endIP, seeded, passes, lastRel>>

\* the requested IP is never compared with the gateway
RequestedIsGateway_Never(gw, req) == FALSE

\* Get, requested-IP path: gw != nil && gw.Equal(a.conf.Args.IP)
RequestedIsGateway(gw, req) == gw # Nil /\ gw = req

\* the requested IP is returned whatever Reserve answered
RequestedReserved_Always(r) == TRUE

\* Get, requested-IP path: if reserved
RequestedReserved(r) == r.reserved

\* Get, requested-IP path (Args.IP set); io: the store's Reserve fails
GetRequested(p) ==
    /\ pc[p] = "get"
    /\ op[p].req # Nil
    /\ LET gw == GatewayOf(conf)
           req == op[p].req
       IN  IF RequestedIsGateway(gw, req)
           THEN /\ result' = [result EXCEPT ![p] = Err("InvalidRequest")]
                /\ UNCHANGED <<table, marker>>
           ELSE IF ~validateRangeIP(req, conf.subnet)
           THEN /\ result' = [result EXCEPT ![p] = Err("OutOfRange")]
                /\ UNCHANGED <<table, marker>>
           ELSE \E io \in BOOLEAN :
                  IF io
                  THEN /\ result' = [result EXCEPT ![p] = Err("StoreIOError")]
                       /\ UNCHANGED <<table, marker>>
                  ELSE LET r == Reserve(table, marker, op[p].id, req) IN
                       /\ table' = r.table
                       /\ marker' = r.marker
                       /\ result' = [result EXCEPT ![p] =
                              IF RequestedReserved(r) THEN Ok(req)
                              ELSE Err("AddressUnavailable")]
    /\ pc' = [pc EXCEPT ![p] = "unlock"]
    /\ UNCHANGED <<conf, open, holders, op, cur, endIP, tbl0, mk0, seeded, passes, lastRel, calls>>

\* Get, search path: startIP, endIP := a.getSearchRange();
\* io: Store.LastReservedIP fails, which is logged and leaves no seed
GetSearchRange(p) ==
    /\ pc[p] = "get"
    /\ op[p].req = Nil
    /\ \E io \in BOOLEAN :
         LET r == getSearchRange(conf, alloc, IF io THEN Nil ELSE marker) IN
         /\ cur' = [cur EXCEPT ![p] = r.startIP]
         /\ endIP' = [endIP EXCEPT ![p] = r.endIP]
         /\ seeded' = [seeded EXCEPT ![p] = r.seeded]
    /\ pc' = [pc EXCEPT ![p] = "search"]
    /\ UNCHANGED <<conf, open, table, marker, holders, op, result, tbl0, mk0, passes, lastRel, calls>>

\* the search does not skip the gateway
SearchIsGateway_Never(gw, c) == FALSE

\* Get, search loop: gw != nil && cur.Equal(gw)
SearchIsGateway(gw, c) == gw # Nil /\ c = gw

\* the search returns its candidate whatever Reserve answered
SearchReserved_Always(r) == TRUE

\* Get, search loop: if reserved
SearchReserved(r) == r.reserved

\* Get, one pass of the search loop (loop test, gateway test, Reserve);
\* io: the store's Reserve fails
GetSearchStep(p) ==
    /\ pc[p] = "search"
    /\ LET gw == GatewayOf(conf) IN
       IF cur[p] = endIP[p]
       THEN /\ result' = [result EXCEPT ![p] = Err("PoolExhausted")]
            /\ pc' = [pc EXCEPT ![p] = "unlock"]
            /\ UNCHANGED <<table, marker, cur, passes>>
       ELSE /\ passes' = [passes EXCEPT ![p] = IF @ < MaxPasses THEN @ + 1 ELSE @]
            /\ IF SearchIsGateway(gw, cur[p])
               THEN /\ cur' = [cur EXCEPT ![p] = nextIP(alloc, cur[p])]
                    /\ UNCHANGED <<table, marker, result, pc>>
               ELSE \E io \in BOOLEAN :
                      IF io
                      THEN /\ result' = [result EXCEPT ![p] = Err("StoreIOError")]
                           /\ pc' = [pc EXCEPT ![p] = "unlock"]
                           /\ UNCHANGED <<table, marker, cur>>
                      ELSE LET r == Reserve(table, marker, op[p].id, cur[p]) IN
                           /\ table' = r.table
                           /\ marker' = r.marker
                           /\ IF SearchReserved(r)
                              THEN /\ result' = [result EXCEPT ![p] = Ok(cur[p])]
                                   /\ pc' = [pc EXCEPT ![p] = "unlock"]
                                   /\ UNCHANGED cur
                              ELSE /\ cur' = [cur EXCEPT ![p] = nextIP(alloc, cur[p])]
                                   /\ UNCHANGED <<result, pc>>
    /\ UNCHANGED <<conf, open, holders, op, endIP, tbl0, mk0, seeded, lastRel, calls>>

\* a Release that fails when the owner holds no record
Release_NotFoundFails(p) ==
    /\ pc[p] = "release"
    /\ table' = ReleaseByID(table, op[p].id)
    /\ result' = [result EXCEPT ![p] =
           IF op[p].id \in {r[2] : r \in table} THEN Ok(Nil) ELSE Err("NotFound")]
    /\ pc' = [pc EXCEPT ![p] = "unlock"]
    /\ UNCHANGED <<conf, open, marker, holders, op, cur, endIP, tbl0, mk0, seeded, passes, lastRel, calls>>

\* a Release that also forgets the marker when it releases the marker's address
Release_ForgetsMarker(p) ==
    /\ pc[p] = "release"
    /\ table' = ReleaseByID(table, op[p].id)
    /\ marker' = IF <<marker, op[p].id>> \in table THEN Nil ELSE marker
    /\ result' = [result EXCEPT ![p] = Ok(Nil)]
    /\ pc' = [pc EXCEPT ![p] = "unlock"]
    /\ UNCHANGED <<conf, open, holders, op, cur, endIP, tbl0, mk0, seeded, passes, lastRel, calls>>

\* Release: a.store.ReleaseByID(id)
Release(p) ==
    /\ pc[p] = "release"
    /\ table' = ReleaseByID(table, op[p].id)
    /\ result' = [result EXCEPT ![p] = Ok(Nil)]
    /\ pc' = [pc EXCEPT ![p] = "unlock"]
    /\ UNCHANGED <<conf, open, marker, holders, op, cur, endIP, tbl0, mk0, seeded, passes, lastRel, calls>>

\* an Unlock written at the end of the success path instead of deferred
Unlock_OnlyOnSuccess(p) ==
    /\ pc[p] = "unlock"
    /\ holders' = IF result[p].kind = "ok" THEN holders \ {p} ELSE holders
    /\ pc' = [pc EXCEPT ![p] = "close"]
    /\ op' = [op EXCEPT ![p] = NoOp]
    /\ cur' = [cur EXCEPT ![p] = Nil]
    /\ endIP' = [endIP EXCEPT ![p] = Nil]
    /\ result' = [result EXCEPT ![p] = NoResult]
    /\ tbl0' = [tbl0 EXCEPT ![p] = {}]
    /\ mk0' = [mk0 EXCEPT ![p] = Nil]
    /\ seeded' = [seeded EXCEPT ![p] = FALSE]
    /\ passes' = [passes EXCEPT ![p] = 0]
    /\ lastRel' = IF op[p].cmd = "del" THEN op[p].id ELSE 0
    /\ UNCHANGED <<conf, open, table, marker, calls>>

\* the deferred a.store.Unlock() of Get and Release; the call returns
Unlock(p) ==
    /\ pc[p] = "unlock"
    /\ holders' = holders \ {p}
    /\ pc' = [pc EXCEPT ![p] = "close"]
    /\ op' = [op EXCEPT ![p] = NoOp]
    /\ cur' = [cur EXCEPT ![p] = Nil]
    /\ endIP' = [endIP EXCEPT ![p] = Nil]
    /\ result' = [result EXCEPT ![p] = NoResult]
    /\ tbl0' = [tbl0 EXCEPT ![p] = {}]
    /\ mk0' = [mk0 EXCEPT ![p] = Nil]
    /\ seeded' = [seeded EXCEPT ![p] = FALSE]
    /\ passes' = [passes EXCEPT ![p] = 0]
    /\ lastRel' = IF op[p].cmd = "del" THEN op[p].id ELSE 0
    /\ UNCHANGED <<conf, open, table, marker, calls>>

\* the deferred store.Close() of cmdAdd / cmdDel; the process exits
Close(p) ==
    /\ pc[p] = "close"
    /\ open' = open \ {p}
    /\ pc' = [pc EXCEPT ![p] = "idle"]
    /\ op' = [op EXCEPT ![p] = NoOp]
    /\ result' = [result EXCEPT ![p] = NoResult]
    /\ UNCHANGED <<conf, table, marker, holders, cur, endIP, tbl0, mk0, seeded, passes, lastRel, calls>>

Next ==
    \E p \in Procs :
        \/ cmdAdd(p)
        \/ cmdDel(p)
        \/ GetRequested(p)
        \/ GetSearchRange(p)
        \/ GetSearchStep(p)
        \/ Release(p)
        \/ Unlock(p)
        \/ Close(p)

Spec == Init /\ [][Next]_vars

\* ---- the commands under any configuration ----

\* subnets as they may reach NewIPAllocator: also without an address or with
\* an address and a mask of different widths
AnySubnets ==
    Subnets
    \cup {[s EXCEPT !.ip = Nil] : s \in Subnets}
    \cup {[s EXCEPT !.maskLen = "v6"] : s \in Subnets}
    \cup {[s EXCEPT !.ipLen = "v6"] : s \in Subnets}
\* configurations with the default gateway, valid or not
AnyConfs == [subnet : AnySubnets, rangeStart : OptAddr, rangeEnd : OptAddr, gateway : {Nil}]

CmdInit ==
    /\ conf \in AnyConfs
    /\ table = {}
    /\ marker = Nil
    /\ holders = {}
    /\ open = {}
    /\ pc = [p \in Procs |-> "idle"]
    /\ op = [p \in Procs |-> NoOp]
    /\ cur = [p \in Procs |-> Nil]
    /\ endIP = [p \in Procs |-> Nil]
    /\ result = [p \in Procs |-> NoResult]
    /\ tbl0 = [p \in Procs |-> {}]
    /\ mk0 = [p \in Procs |-> Nil]
    /\ seeded = [p \in Procs |-> FALSE]
    /\ passes = [p \in Procs |-> 0]
    /\ lastRel = 0
    /\ calls = 0

CmdSpec == CmdInit /\ [][Next]_vars

\* ---- properties ----

\* the call of p has its result and still holds the lock
Returned(p, cmd) == pc[p] = "unlock" /\ op[p].cmd = cmd
\* p's Get without Args.IP has its result
SearchReturned(p) == Returned(p, "add") /\ op[p].req = Nil
\* p's Get with Args.IP has its result
RequestedReturned(p) == Returned(p, "add") /\ op[p].req # Nil

\* the addresses of the effective range [start, end), walking up from start
Range(a) == {x \in Addr : (x - a.start) % AddrSpace < (a.end - a.start) % AddrSpace}
\* the addresses of the effective range the search may hand out
Pool == Range(alloc) \ {GatewayOf(conf)}

\* C1: every address has at most one owner, and an Allocate that returns an
\* address returns one that no record held when the call took the lock (the
\* records are the addresses handed out and not released since) and now holds
\* it for its caller.
C1_UniqueAddresses ==
    /\ \A a \in Addr : Cardinality(OwnersOf(table, a)) <= 1
    /\ \A p \in Procs :
         (Returned(p, "add") /\ result[p].kind = "ok") =>
             /\ result[p].ip \notin Held(tbl0[p])
             /\ OwnersOf(table, result[p].ip) = {op[p].id}

\* a second process allocates while the first one's address is held by another owner
C1_Witness ==
    \E p \in Procs, q \in Procs :
        /\ p # q
        /\ pc[q] = "close"
        /\ SearchReturned(p)
        /\ result[p].kind = "ok"
        /\ \E r \in tbl0[p] : r[2] # op[p].id

\* C2: when every address of the effective range other than the gateway is
\* held, Allocate without a requested IP fails with PoolExhausted (a failure
\* of the store itself set aside).
C2_ExhaustedPoolFails ==
    \A p \in Procs :
        (SearchReturned(p) /\ Pool \subseteq Held(tbl0[p])
            /\ result[p].kind # "StoreIOError")
        => result[p].kind = "PoolExhausted"

\* C3: neither the network address nor the broadcast address of the subnet is
\* held in a reservation record.
C3_NoNetworkNoBroadcast ==
    \A r \in table :
        /\ r[1] # networkRange(conf.subnet).start
        /\ r[1] # networkRange(conf.subnet).end

\* C4: every Allocate call terminates: its search visits finitely many
\* candidates.  The loop keeps nothing but the candidate, so a walk that ends
\* visits no candidate twice and hence at most as many as there are addresses.
C4_WalkIsFinite ==
    \A p \in Procs : passes[p] <= AddrSpace

\* C5: Allocate never returns the gateway address (the configured one, or
\* NextIP of the subnet address when none is configured), on the search path
\* and on the requested-IP path; the gateway is never given a record.
C5_GatewayNeverReturned ==
    /\ GatewayOf(conf) \notin Held(table)
    /\ \A p \in Procs :
         (Returned(p, "add") /\ result[p].kind = "ok") => result[p].ip # GatewayOf(conf)

\* a search that started at the gateway, which no record holds, returned an address
C5_Witness ==
    \E p \in Procs :
        /\ SearchReturned(p)
        /\ result[p].kind = "ok"
        /\ ~seeded[p]
        /\ alloc.start = GatewayOf(conf)
        /\ conf.gateway # Nil

\* position of an address of the effective range, counted from start
Pos(a, x) == (x - a.start) % AddrSpace
\* the addresses of the pool no record of t holds
FreeIn(t) == Pool \ Held(t)
\* distance from x to y walking the effective range upwards with wraparound
After(a, x, y) == (Pos(a, y) - Pos(a, x)) % Cardinality(Range(a))
\* the first free address of the pool strictly after x in that cyclic order
FirstFreeAfter(a, t, x) ==
    CHOOSE y \in FreeIn(t) \ {x} :
        \A z \in FreeIn(t) \ {x} : After(a, x, y) <= After(a, x, z)

\* C6: round-robin.  An Allocate without a requested IP that finds the
\* address X of the latest allocation still held (X in the effective range)
\* and returns an address, returns the first free non-gateway address
\* strictly after X in the cyclic order of the effective range.
C6_RoundRobin ==
    \A p \in Procs :
        (/\ SearchReturned(p)
         /\ seeded[p]
         /\ mk0[p] \in Range(alloc)
         /\ mk0[p] \in Held(tbl0[p])
         /\ result[p].kind = "ok")
        => /\ FreeIn(tbl0[p]) # {}
           /\ result[p].ip = FirstFreeAfter(alloc, tbl0[p], mk0[p])

\* the case of the requested-IP path that the request of p falls in
RequestedCase(p) ==
    IF op[p].req = GatewayOf(conf) THEN "InvalidRequest"
    ELSE IF ~Contains(conf.subnet, op[p].req) THEN "OutOfRange"
    ELSE IF op[p].req \in Held(tbl0[p]) THEN "AddressUnavailable"
    ELSE "ok"

\* the call of p added the record (a, ContainerID), moved the marker to a and
\* changed nothing else
AddedExactly(p, a) ==
    /\ a \notin Held(tbl0[p])
    /\ table = tbl0[p] \cup {<<a, op[p].id>>}
    /\ marker = a

\* the call of p left records and marker as it found them
StoreUntouched(p) == table = tbl0[p] /\ marker = mk0[p]

\* C7 as stated: on the requested-IP path a request for the gateway fails
\* with InvalidRequest (whether or not it is in the subnet), one outside the
\* subnet with OutOfRange, one for a held address with AddressUnavailable,
\* each leaving records and marker unchanged and trying no candidate of the
\* search; otherwise the call returns exactly the requested address.
C7_RequestedPath ==
    \A p \in Procs :
        RequestedReturned(p) =>
            /\ result[p].kind = RequestedCase(p)
            /\ passes[p] = 0
            /\ result[p].kind # "ok" => StoreUntouched(p)
            /\ result[p].kind = "ok" => result[p].ip = op[p].req

\* C7 amended: the same, except that where the request reaches the store's
\* Reserve (it is not the gateway and lies in the subnet) a failure of the
\* store is returned instead, with records and marker unchanged; a success
\* adds the requested address for the caller and nothing else.
C7_RequestedPathOrStoreError ==
    \A p \in Procs :
        RequestedReturned(p) =>
            /\ \/ result[p].kind = RequestedCase(p)
               \/ /\ result[p].kind = "StoreIOError"
                  /\ RequestedCase(p) \in {"AddressUnavailable", "ok"}
            /\ passes[p] = 0
            /\ result[p].kind # "ok" => StoreUntouched(p)
            /\ result[p].kind = "ok" =>
                   /\ result[p].ip = op[p].req
                   /\ AddedExactly(p, op[p].req)

\* a request for a gateway that lies outside the subnet was refused as
\* InvalidRequest while other records exist
C7_Witness ==
    \E p \in Procs :
        /\ RequestedReturned(p)
        /\ result[p].kind = "InvalidRequest"
        /\ ~Contains(conf.subnet, op[p].req)
        /\ tbl0[p] # {}

C9_AllocateAllOrNothing ==
    \A p \in Procs :
        /\ pc[p] \in {"get", "search"} => StoreUntouched(p)
        /\ Returned(p, "add") =>
               IF result[p].kind = "ok"
               THEN AddedExactly(p, result[p].ip)
               ELSE /\ result[p].kind \in {"InvalidRequest", "OutOfRange",
                           "AddressUnavailable", "PoolExhausted", "StoreIOError"}
                    /\ StoreUntouched(p)

\* a search failed on a store error after it had passed held candidates
C9_Witness ==
    \E p \in Procs :
        /\ SearchReturned(p)
        /\ result[p].kind = "StoreIOError"
        /\ passes[p] >= 2
        /\ tbl0[p] # {}

\* C10: at most one process holds the lock, and a process is between the
\* Lock and the Unlock of Get or Release, where all its store accesses are,
\* exactly when it holds the lock: no other process is at a store access.
InCall(p) == pc[p] \in {"get", "search", "release", "unlock"}
C10_LockSerialises ==
    /\ Cardinality(holders) <= 1
    /\ \A p \in Procs : InCall(p) <=> p \in holders
    /\ \A p \in Procs, q \in Procs : (InCall(p) /\ InCall(q)) => p = q

\* one process is in the middle of its search while another one, whose call
\* has returned, is still running
C10_Witness ==
    \E p \in Procs, q \in Procs :
        /\ pc[p] = "search"
        /\ passes[p] >= 1
        /\ pc[q] = "close"
        /\ table # {}

\* the results a call of Get or Release returns with
ResultKinds ==
    {"ok", "InvalidRequest", "OutOfRange", "AddressUnavailable", "PoolExhausted", "StoreIOError"}

\* C11: every Allocate and Release call that returns has released the store
\* lock by the time it returns, whatever it returns (an address, or any of
\* InvalidRequest, OutOfRange, AddressUnavailable, PoolExhausted,
\* StoreIOError): the step by which a call returns takes its process out of
\* the lock holders, and no process outside a call holds the lock.
C11_LockReleasedOnReturn ==
    /\ [](\A p \in Procs : pc[p] \in {"idle", "close"} => p \notin holders)
    /\ [][\A p \in Procs :
             (pc[p] = "unlock" /\ pc'[p] # "unlock") =>
                 /\ result[p].kind \in ResultKinds
                 /\ p \notin holders']_vars

\* the only call so far, an Allocate, has returned an error (it left no
\* record) and nobody holds the lock
C11_Witness ==
    \E p \in Procs :
        /\ pc[p] = "close"
        /\ calls = 1
        /\ lastRel = 0
        /\ table = {}
        /\ holders = {}
\* p's Get without Args.IP has its search range, or its result
Searching(p) == (pc[p] = "search" /\ op[p].cmd = "add") \/ SearchReturned(p)

\* C12: the search is seeded from the marker only when the marker lies
\* inside the effective range [start, end); with a marker outside it the
\* search runs from start to end.
C12_SeedOnlyInsideRange ==
    \A p \in Procs :
        Searching(p) =>
            /\ seeded[p] => mk0[p] \in Range(alloc)
            /\ mk0[p] \notin Range(alloc) => endIP[p] = alloc.end
\* C13: every address returned by Allocate without a requested IP lies in the
\* effective range: at or after start and strictly before end.
C13_SearchStaysInRange ==
    \A p \in Procs :
        (SearchReturned(p) /\ result[p].kind = "ok") => result[p].ip \in Range(alloc)

WalkedFromStart(p) ==
    IF FreeIn(tbl0[p]) = {}
    THEN result[p].kind = "PoolExhausted"
    ELSE /\ result[p].kind = "ok"
         /\ result[p].ip \in FreeIn(tbl0[p])
         /\ \A y \in FreeIn(tbl0[p]) : result[p].ip <= y

\* C16 as stated: with no usable seed (no marker, or reading it failed)
\* Allocate without a requested IP returns the lowest-numbered address of
\* [start, end) that is free and not the gateway, or PoolExhausted when
\* there is none.
C16_UnseededWalk ==
    \A p \in Procs :
        (SearchReturned(p) /\ ~seeded[p]) => WalkedFromStart(p)

\* C16 amended: the same, unless a Reserve of the walk fails, in which case
\* the call returns StoreIOError with records and marker unchanged.
C16_UnseededWalkOrStoreError ==
    \A p \in Procs :
        (SearchReturned(p) /\ ~seeded[p]) =>
            \/ WalkedFromStart(p)
            \/ /\ result[p].kind = "StoreIOError"
               /\ Pool # {}
               /\ StoreUntouched(p)

\* with a marker set, a search that got no seed (reading the marker failed,
\* or it lies outside the subnet) passed held addresses and returned the
\* lowest free one
C16_Witness ==
    \E p \in Procs :
        /\ SearchReturned(p)
        /\ ~seeded[p]
        /\ mk0[p] # Nil
        /\ result[p].kind = "ok"
        /\ passes[p] >= 2
\* the subnet has an address, and address and mask have one width
SubnetValid(c) == c.subnet.ip # Nil /\ c.subnet.ipLen = c.subnet.maskLen
\* the network address and the broadcast address of the subnet
NetworkAddr(c) == c.subnet.ip - (c.subnet.ip % SubnetSize(c.subnet))
BroadcastAddr(c) == NetworkAddr(c) + SubnetSize(c.subnet) - 1
\* a given RangeStart or RangeEnd lies outside the subnet
OutsideSubnet(c, a) == a # Nil /\ (a < NetworkAddr(c) \/ a > BroadcastAddr(c))
\* the error construction is to fail with
ExpectedErr(c) ==
    IF ~SubnetValid(c) THEN "InvalidSubnet"
    ELSE IF OutsideSubnet(c, c.rangeStart) \/ OutsideSubnet(c, c.rangeEnd) THEN "InvalidRange"
    ELSE "none"
\* the invocation of p has failed in construction
ConstructionFailed(p) == pc[p] = "close" /\ result[p].kind # "none"

\* C17: construction gives start = RangeStart when given, else network
\* address + 1, and end = NextAddress(RangeEnd) when given, else the
\* broadcast address; it fails with InvalidSubnet for a subnet without
\* address or with address and mask of different widths, with InvalidRange
\* exactly when, the subnet being valid, a given RangeStart or RangeEnd lies
\* outside the subnet, and otherwise succeeds; no record, marker or lock
\* changes by it: the step that constructs changes neither records nor
\* marker, and one that fails takes no lock.
C17_Construction ==
    /\ [](\A p \in Procs :
            /\ InCall(p) =>
                   /\ ExpectedErr(conf) = "none"
                   /\ alloc.err = "none"
                   /\ alloc.start = (IF conf.rangeStart # Nil THEN conf.rangeStart
                                     ELSE NetworkAddr(conf) + 1)
                   /\ alloc.end = (IF conf.rangeEnd # Nil THEN (conf.rangeEnd + 1) % AddrSpace
                                   ELSE BroadcastAddr(conf))
            /\ ConstructionFailed(p) =>
                   /\ ExpectedErr(conf) # "none"
                   /\ result[p].kind = ExpectedErr(conf)
                   /\ table = {} /\ marker = Nil /\ holders = {})
    /\ [][\A p \in Procs :
             (pc[p] = "idle" /\ pc'[p] # "idle") =>
                 /\ table' = table
                 /\ marker' = marker
                 /\ pc'[p] = "close" => holders' = holders]_vars

\* construction failed with InvalidRange for a RangeEnd outside the subnet,
\* the RangeStart being inside
C17_Witness ==
    \E p \in Procs :
        /\ ConstructionFailed(p)
        /\ result[p].kind = "InvalidRange"
        /\ conf.rangeStart # Nil
        /\ ~OutsideSubnet(conf, conf.rangeStart)
        /\ OutsideSubnet(conf, conf.rangeEnd)
\* C18: in each add or delete invocation the store, once opened, is closed
\* exactly once on every exit path (construction failure, error or success
\* of Allocate or Release), and only after the lock of Allocate or Release
\* has been released.  The store of a process is open exactly while its
\* invocation runs; the one step that closes it is the step by which the
\* invocation exits, taken while the process does not hold the lock.
C18_StoreClosedOnce ==
    /\ [](\A p \in Procs : p \in open <=> pc[p] # "idle")
    /\ [][\A p \in Procs :
             /\ (p \in open /\ p \notin open') =>
                    (pc[p] = "close" /\ pc'[p] = "idle" /\ p \notin holders)
             /\ (pc[p] = "close" /\ pc'[p] # "close") =>
                    (p \in open /\ p \notin open' /\ p \notin holders /\ pc'[p] = "idle")]_vars

\* after an earlier invocation has exited with its store closed, one whose
\* construction failed is about to close its store
C18_Witness ==
    \E p \in Procs :
        /\ ConstructionFailed(p)
        /\ open = {p}
        /\ holders = {}
        /\ calls >= 2
====
